---- MODULE Spec2Model ----
(***************************************************************************)
(* A state-machine model of the AccessAid backend: the relational store    *)
(* of backend/database/models.py and the request handlers of               *)
(* backend/main.py, together with the ORM-level writes that the seed and   *)
(* test scripts perform on the same store.                                 *)
(*                                                                         *)
(* The store is the MySQL schema of models.py; ledger is a history        *)
(* variable (who registered with which PIN, which reminder was created    *)
(* for whom, which were deleted, which TTS entries were logged) that no    *)
(* handler reads.                                                          *)
(*                                                                         *)
(* Conventions.  Text values are sequences of one-character strings, so    *)
(* that lower(), strip(), split() and isdigit() are computed character by  *)
(* character.  An Optional value is a sequence of length at most one:      *)
(* None is << >> and a present value x is <<x>>.  Times are integers       *)
(* (minutes).  A handler is one atomic step (one session, one commit);     *)
(* the handlers that query before they insert are also given in two       *)
(* steps, the query and the commit, with the requests between the two     *)
(* kept in inflight.  test_run and seed_run are the positions of the      *)
(* relationship test and of seed_database.  sessions holds, per client,   *)
(* the session that get_db hands to the request in progress.              *)
(***************************************************************************)
EXTENDS Integers, Sequences, FiniteSets, TLC

VARIABLES users, tasks, reminders, notifications, tts_history,
          user_settings, device_sync, accessibility_logs,
          next_id, now, last, ledger, test_run, seed_run, inflight,
          sessions

store == <<users, tasks, reminders, notifications, tts_history,
           user_settings, device_sync, accessibility_logs, next_id>>
vars == <<users, tasks, reminders, notifications, tts_history,
          user_settings, device_sync, accessibility_logs,
          next_id, now, last, ledger, test_run, seed_run, inflight,
          sessions>>

(* ------------------------------ bounds -------------------------------- *)
MaxUsers == 2
MaxReminders == 2
MaxRows == 1
MaxEntries == 3
MaxClients == 2
MaxTime == 1

(* --------------------------- program constants ------------------------ *)
ACCESS_TOKEN_EXPIRE_HOURS == 24
Hour == 60

(* ------------------------------ Optional ------------------------------ *)
None == << >>
Some(x) == <<x>>
IsNone(o) == o = << >>
Get(o) == o[1]

\* The clients that may have a request in progress at the same time.
Clients == 1..MaxClients

(* ------------------------------- text --------------------------------- *)
LowerChar(c) ==
  CASE c = "A" -> "a"
    [] c = "B" -> "b"
    [] c = "X" -> "x"
    [] OTHER -> c

\* Mutant of lower: the text is kept as typed.
lower_KeepCase(s) == s

lower(s) == [i \in 1..Len(s) |-> LowerChar(s[i])]

IsDigitChar(c) == c \in {"0", "1", "2", "3", "4", "5", "6", "7", "8", "9"}

isdigit(s) == Len(s) > 0 /\ \A i \in 1..Len(s) : IsDigitChar(s[i])

IsSpace(c) == c \in {" "}

RECURSIVE lstrip(_)
lstrip(s) ==
  IF s = << >> THEN s
  ELSE IF IsSpace(Head(s)) THEN lstrip(Tail(s)) ELSE s

RECURSIVE rstrip(_)
rstrip(s) ==
  IF s = << >> THEN s
  ELSE IF IsSpace(s[Len(s)]) THEN rstrip(SubSeq(s, 1, Len(s) - 1)) ELSE s

strip(s) == rstrip(lstrip(s))

RECURSIVE TokenLen(_)
TokenLen(s) ==
  IF s = << >> \/ IsSpace(Head(s)) THEN 0 ELSE 1 + TokenLen(Tail(s))

\* str.split(maxsplit=1): at most two parts, runs of whitespace are one
\* separator, an all-whitespace or empty string gives the empty list.
split_maxsplit1(s) ==
  LET t == lstrip(s) IN
  IF t = << >> THEN << >>
  ELSE LET k == TokenLen(t)
           rest == lstrip(SubSeq(t, k + 1, Len(t)))
       IN IF rest = << >> THEN <<SubSeq(t, 1, k)>>
          ELSE <<SubSeq(t, 1, k), rest>>

(* ------------------------- hashing and tokens ------------------------- *)
\* passlib's bcrypt context, kept abstract: a hash is not the PIN, and
\* verify succeeds exactly on the PIN that was hashed.
hash_pin(pin) == <<"$2b$", pin>>

\* Mutant of verify_pin: any PIN verifies against a well-formed hash.
verify_pin_AnyPin(pin, hashed_pin) == Len(hashed_pin) = 2

verify_pin(pin, hashed_pin) == hashed_pin = <<"$2b$", pin>>

create_access_token(data) ==
  [sub |-> data.sub, email |-> data.email,
   exp |-> now + ACCESS_TOKEN_EXPIRE_HOURS * Hour]

(* ---------------------------- the store ------------------------------- *)
DefaultPreferences ==
  [voice_speed |-> "1.0", high_contrast |-> FALSE, large_text |-> FALSE,
   voice_navigation |-> TRUE, reminder_frequency |-> "normal",
   preferred_voice |-> "default"]

UsersByEmail(e) == {u \in users : u.email = e}
UsersById(id) == {u \in users : u.user_id = id}
RemindersById(id) == {r \in reminders : r.reminder_id = id}

\* Mutant of ForeignKeyOk: the foreign key is not enforced.
ForeignKeyOk_NotEnforced(user_id) == TRUE

\* InnoDB refuses a child row whose user_id names no users row.
ForeignKeyOk(user_id) == UsersById(user_id) # {}

Bump(table) == [next_id EXCEPT ![table] = @ + 1]

Reply(op, args, status, body) ==
  last' = [op |-> op, args |-> args, status |-> status, body |-> body]

Init ==
  /\ users = {}
  /\ tasks = {}
  /\ reminders = {}
  /\ notifications = {}
  /\ tts_history = {}
  /\ user_settings = {}
  /\ device_sync = {}
  /\ accessibility_logs = {}
  /\ next_id = [users |-> 1, tasks |-> 1, reminders |-> 1, notifications |-> 1,
                tts_history |-> 1, user_settings |-> 1, device_sync |-> 1,
                accessibility_logs |-> 1]
  /\ now = 0
  /\ last = [op |-> "startup", args |-> << >>, status |-> 0, body |-> << >>]
  /\ ledger = [registered |-> {}, created |-> {}, deleted |-> {}, logged |-> {}]
  /\ test_run = [pc |-> "start", test_user |-> 0, reminder |-> 0]
  /\ seed_run = [pc |-> "start", users |-> << >>, reminders |-> << >>,
                 empty |-> TRUE]
  /\ inflight = [client \in Clients |-> None]
  /\ sessions = [client \in Clients |->
                   [state |-> "none", exit |-> "none", pending |-> None,
                    closes |-> 0]]

(* --------------------------- authentication --------------------------- *)
UserResponseWithToken(user) ==
  [user_id |-> user.user_id, email |-> user.email,
   first_name |-> user.first_name, last_name |-> user.last_name,
   accessibility_preferences |-> user.accessibility_preferences,
   timezone |-> user.timezone, is_active |-> user.is_active,
   access_token |-> create_access_token([sub |-> user.user_id,
                                         email |-> user.email]),
   token_type |-> "bearer"]

NewUser(email, pin, name_parts) ==
  [user_id |-> next_id.users,
   email |-> lower(email),
   password_hash |-> hash_pin(pin),
   first_name |-> name_parts[1],
   last_name |-> IF Len(name_parts) > 1 THEN name_parts[2] ELSE << >>,
   accessibility_preferences |-> DefaultPreferences,
   timezone |-> "UTC",
   is_active |-> TRUE]

PinFormatOk(pin) == isdigit(pin) /\ Len(pin) = 4

register_user(email, pin, name) ==
  LET args == [email |-> email, pin |-> pin, name |-> name]
      name_parts == split_maxsplit1(strip(name))
  IN
  IF UsersByEmail(lower(email)) # {}
  THEN /\ Reply("register_user", args, 400, "Email already registered")
       /\ UNCHANGED <<store, now, ledger, test_run,
                 seed_run, inflight, sessions>>
  ELSE IF ~PinFormatOk(pin)
  THEN /\ Reply("register_user", args, 400, "PIN must be exactly 4 digits")
       /\ UNCHANGED <<store, now, ledger, test_run,
                 seed_run, inflight, sessions>>
  ELSE IF name_parts = << >>
  THEN \* name_parts[0] raises IndexError: an unhandled exception
       /\ Reply("register_user", args, 500, "Internal Server Error")
       /\ UNCHANGED <<store, now, ledger, test_run,
                 seed_run, inflight, sessions>>
  ELSE LET new_user == NewUser(email, pin, name_parts) IN
       /\ next_id.users <= MaxUsers
       /\ users' = users \cup {new_user}
       /\ next_id' = Bump("users")
       /\ ledger' = [ledger EXCEPT !.registered = @ \cup
                       {<<new_user.user_id, pin>>}]
       /\ Reply("register_user", args, 200, UserResponseWithToken(new_user))
       /\ UNCHANGED <<tasks, reminders, notifications, tts_history,
                      user_settings, device_sync, accessibility_logs,
                      now, test_run,
                 seed_run, inflight, sessions>>

login_user(email, pin) ==
  LET args == [email |-> email, pin |-> pin]
      found == UsersByEmail(lower(email))
  IN
  /\ UNCHANGED <<store, now, ledger, test_run,
                 seed_run, inflight, sessions>>
  /\ IF found = {}
     THEN Reply("login_user", args, 401, "Invalid email or PIN")
     ELSE \E user \in found :
            IF ~verify_pin(pin, user.password_hash)
            THEN Reply("login_user", args, 401, "Invalid email or PIN")
            ELSE IF ~user.is_active
            THEN Reply("login_user", args, 403, "Account is inactive")
            ELSE Reply("login_user", args, 200, UserResponseWithToken(user))

\* No handler clears User.is_active; the column is written directly in the
\* store (an operator deactivating an account).
DeactivateUser(user_id) ==
  /\ \E user \in UsersById(user_id) :
       /\ user.is_active
       /\ users' = (users \ {user}) \cup {[user EXCEPT !.is_active = FALSE]}
  /\ Reply("deactivate_user", [user_id |-> user_id], 0, << >>)
  /\ UNCHANGED <<tasks, reminders, notifications, tts_history, user_settings,
                 device_sync, accessibility_logs, next_id, now, ledger, test_run,
                 seed_run, inflight, sessions>>

\* Mutant of Tick: a reminder whose time has passed is deactivated.
Tick_Expires ==
  /\ now < MaxTime
  /\ now' = now + 1
  /\ reminders' = {IF r.reminder_datetime < now + 1
                   THEN [r EXCEPT !.is_active = FALSE] ELSE r : r \in reminders}
  /\ UNCHANGED <<users, tasks, notifications, tts_history, user_settings,
                 device_sync, accessibility_logs, next_id, last, ledger,
                 test_run, seed_run, inflight, sessions>>

\* The wall clock read by datetime.utcnow().
Tick ==
  /\ now < MaxTime
  /\ now' = now + 1
  /\ UNCHANGED <<store, last, ledger, test_run,
                 seed_run, inflight, sessions>>

(* ------------------------------ datetimes ----------------------------- *)
\* An ISO-8601 text is a sequence of lexical parts: a date-time part and an
\* optional zone designator.  The tables give the minutes each part denotes.
DateTimePart == [p \in {"T00:00", "T01:40", "T03:20"} |->
                   IF p = "T00:00" THEN 0 ELSE IF p = "T01:40" THEN 100 ELSE 200]

OffsetPart == [p \in {"+00:00", "+01:00"} |-> IF p = "+00:00" THEN 0 ELSE 60]

\* str.replace('Z', '+00:00')
replace_Z(s) == [i \in 1..Len(s) |-> IF s[i] = "Z" THEN "+00:00" ELSE s[i]]

\* datetime.fromisoformat: ok = FALSE stands for ValueError; tzinfo is None
\* for a naive text and the offset in minutes otherwise.
fromisoformat(s) ==
  IF Len(s) = 1 /\ s[1] \in DOMAIN DateTimePart
  THEN [ok |-> TRUE, wall |-> DateTimePart[s[1]], tzinfo |-> None]
  ELSE IF Len(s) = 2 /\ s[1] \in DOMAIN DateTimePart /\ s[2] \in DOMAIN OffsetPart
  THEN [ok |-> TRUE, wall |-> DateTimePart[s[1]], tzinfo |-> Some(OffsetPart[s[2]])]
  ELSE [ok |-> FALSE, wall |-> 0, tzinfo |-> None]

\* A DateTime column holds the wall-clock fields of the value bound to it;
\* the driver writes them without the tzinfo.
DateTimeColumn(dt) == dt.wall

utcnow == [ok |-> TRUE, wall |-> now, tzinfo |-> None]

\* Mutant of timedelta: the offset is not added.
timedelta_Zero(dt, minutes) == dt

timedelta(dt, minutes) == [dt EXCEPT !.wall = @ + minutes]

(* ------------------------------ reminders ----------------------------- *)
ReminderDict(reminder) ==
  [reminder_id |-> reminder.reminder_id,
   title |-> reminder.title,
   description |-> reminder.description,
   reminder_datetime |-> reminder.reminder_datetime,
   frequency |-> reminder.frequency,
   priority |-> reminder.priority,
   is_active |-> reminder.is_active,
   is_completed |-> reminder.is_completed,
   created_at |-> reminder.created_at]

\* Mutant of get_user_reminders: the filter on user_id is missing.
get_user_reminders_Unfiltered(user_id) ==
  /\ Reply("get_user_reminders", [user_id |-> user_id], 200,
           {ReminderDict(r) : r \in reminders})
  /\ UNCHANGED <<store, now, ledger, test_run,
                 seed_run, inflight, sessions>>

get_user_reminders(user_id) ==
  /\ Reply("get_user_reminders", [user_id |-> user_id], 200,
           {ReminderDict(r) : r \in {x \in reminders : x.user_id = user_id}})
  /\ UNCHANGED <<store, now, ledger, test_run,
                 seed_run, inflight, sessions>>

\* Python truth value of an Optional[str]: None and "" are both false.
Truthy(opt) == ~IsNone(opt) /\ Get(opt) # << >>

NewReminder(user_id, reminder_data, parsed_datetime) ==
  [reminder_id |-> next_id.reminders,
   user_id |-> user_id,
   title |-> reminder_data.title,
   description |-> reminder_data.description,
   reminder_datetime |-> DateTimeColumn(parsed_datetime),
   frequency |-> reminder_data.frequency,
   priority |-> reminder_data.priority,
   is_active |-> TRUE,
   is_completed |-> FALSE,
   completed_at |-> None,
   created_at |-> now,
   updated_at |-> now]

create_reminder(user_id, reminder_data) ==
  LET args == [user_id |-> user_id, reminder_data |-> reminder_data]
      text == reminder_data.reminder_datetime
      parsed == IF Truthy(text) THEN fromisoformat(replace_Z(Get(text)))
                ELSE timedelta(utcnow, Hour)
  IN
  IF UsersById(user_id) = {}
  THEN /\ Reply("create_reminder", args, 404, "User not found")
       /\ UNCHANGED <<store, now, ledger, test_run,
                 seed_run, inflight, sessions>>
  ELSE IF ~parsed.ok
  THEN /\ Reply("create_reminder", args, 400, "Invalid datetime format")
       /\ UNCHANGED <<store, now, ledger, test_run,
                 seed_run, inflight, sessions>>
  ELSE LET reminder == NewReminder(user_id, reminder_data, parsed) IN
       /\ next_id.reminders <= MaxReminders
       /\ reminders' = reminders \cup {reminder}
       /\ next_id' = Bump("reminders")
       /\ ledger' = [ledger EXCEPT !.created = @ \cup
                       {<<reminder.reminder_id, user_id>>}]
       /\ Reply("create_reminder", args, 200, ReminderDict(reminder))
       /\ UNCHANGED <<users, tasks, notifications, tts_history, user_settings,
                      device_sync, accessibility_logs, now, test_run,
                 seed_run, inflight, sessions>>

\* create_reminder when db.commit() raises (the server is gone, a lock wait
\* timed out): the handler's except branch rolls the session back and
\* answers 500.
create_reminder_commit_fails(user_id, reminder_data) ==
  LET args == [user_id |-> user_id, reminder_data |-> reminder_data]
      text == reminder_data.reminder_datetime
      parsed == IF Truthy(text) THEN fromisoformat(replace_Z(Get(text)))
                ELSE timedelta(utcnow, Hour)
  IN
  /\ UsersById(user_id) # {}
  /\ parsed.ok
  /\ Reply("create_reminder", args, 500, "Error creating reminder")
  /\ UNCHANGED <<store, now, ledger, test_run, seed_run, inflight, sessions>>

\* The assignments of update_reminder, in the handler's order; ok = FALSE
\* when fromisoformat raised and the handler left with HTTP 400.
Patch(reminder, update_data) ==
  LET text == update_data.reminder_datetime
      parsed == IF IsNone(text) THEN [ok |-> TRUE, wall |-> 0, tzinfo |-> None]
                ELSE fromisoformat(replace_Z(Get(text)))
      Pick(opt, old) == IF IsNone(opt) THEN old ELSE Get(opt)
  IN [ok |-> parsed.ok,
      row |-> [reminder EXCEPT
                 !.title = Pick(update_data.title, @),
                 !.description =
                     IF IsNone(update_data.description) THEN @
                     ELSE update_data.description,
                 !.reminder_datetime =
                     IF IsNone(text) \/ ~parsed.ok THEN @
                     ELSE DateTimeColumn(parsed),
                 !.frequency = Pick(update_data.frequency, @),
                 !.priority = Pick(update_data.priority, @),
                 !.is_active = Pick(update_data.is_active, @),
                 !.is_completed = Pick(update_data.is_completed, @)]]

\* The UPDATE of a flush: emitted only for a row with a changed column, and
\* then Reminder.updated_at takes its onupdate value.
Flush(old, new) == IF new = old THEN old ELSE [new EXCEPT !.updated_at = now]

\* Mutant of db_close: closing the session writes the pending changes.
db_close_Commits(stored, pending) == pending

\* get_db's finally: db.close() without a commit rolls the transaction back,
\* and the row stays as stored.
db_close(stored, pending) == stored

update_reminder(reminder_id, update_data) ==
  LET args == [reminder_id |-> reminder_id, update_data |-> update_data]
      found == RemindersById(reminder_id)
  IN
  IF found = {}
  THEN /\ Reply("update_reminder", args, 404, "Reminder not found")
       /\ UNCHANGED <<store, now, ledger, test_run,
                 seed_run, inflight, sessions>>
  ELSE \E reminder \in found :
         LET patched == Patch(reminder, update_data) IN
         IF ~patched.ok
         THEN \* the session is closed without a commit
              /\ reminders' = (reminders \ {reminder}) \cup
                               {db_close(reminder, patched.row)}
              /\ Reply("update_reminder", args, 400, "Invalid datetime format")
              /\ UNCHANGED <<users, tasks, notifications, tts_history,
                             user_settings, device_sync, accessibility_logs,
                             next_id, now, ledger, test_run, seed_run, inflight, sessions>>
         ELSE LET row == Flush(reminder, patched.row) IN
              /\ reminders' = (reminders \ {reminder}) \cup {row}
              /\ Reply("update_reminder", args, 200, ReminderDict(row))
              /\ UNCHANGED <<users, tasks, notifications, tts_history,
                             user_settings, device_sync, accessibility_logs,
                             next_id, now, ledger, test_run,
                 seed_run, inflight, sessions>>

(* ------------------------------- get_db ------------------------------- *)
\* A request with its session: get_db creates the session and yields it,
\* the handler runs and leaves by one of three ways, and the generator's
\* finally clause closes the session.  pending is the row the session has
\* changed and not committed.
ExitPaths == {"return", "HTTPException", "exception"}

\* Mutant of ClosesOn: db.close() follows the yield without try/finally.
ClosesOn_ReturnOnly(exit) == exit = "return"

\* try: yield db / finally: db.close() runs however the handler leaves.
ClosesOn(exit) == exit \in ExitPaths

get_db(client) ==
  /\ sessions[client].state \in {"none", "closed"}
  /\ sessions' = [sessions EXCEPT ![client] =
                    [state |-> "open", exit |-> "none", pending |-> None,
                     closes |-> 0]]
  /\ UNCHANGED <<store, now, last, ledger, test_run, seed_run, inflight>>

Exit(client, exit, pending) ==
  sessions' = [sessions EXCEPT ![client].state = "exited",
                               ![client].exit = exit,
                               ![client].pending = pending]

\* update_reminder on the session of the client.  commit_ok = FALSE is a
\* db.commit() that raises (the server is gone): the handler has no except
\* clause and the exception leaves it.
update_reminder_session(client, reminder_id, update_data, commit_ok) ==
  LET args == [reminder_id |-> reminder_id, update_data |-> update_data]
      found == RemindersById(reminder_id)
  IN
  /\ sessions[client].state = "open"
  /\ UNCHANGED <<users, tasks, notifications, tts_history, user_settings,
                 device_sync, accessibility_logs, next_id, now, ledger,
                 test_run, seed_run, inflight>>
  /\ IF found = {}
     THEN /\ Reply("update_reminder", args, 404, "Reminder not found")
          /\ Exit(client, "HTTPException", None)
          /\ UNCHANGED reminders
     ELSE \E reminder \in found :
            LET patched == Patch(reminder, update_data) IN
            IF ~patched.ok
            THEN /\ Reply("update_reminder", args, 400, "Invalid datetime format")
                 /\ Exit(client, "HTTPException", Some(patched.row))
                 /\ UNCHANGED reminders
            ELSE IF ~commit_ok
            THEN /\ Reply("update_reminder", args, 500, "Internal Server Error")
                 /\ Exit(client, "exception", Some(patched.row))
                 /\ UNCHANGED reminders
            ELSE LET row == Flush(reminder, patched.row) IN
                 /\ reminders' = (reminders \ {reminder}) \cup {row}
                 /\ Reply("update_reminder", args, 200, ReminderDict(row))
                 /\ Exit(client, "return", None)

\* The finally clause of get_db.
get_db_finally(client) ==
  LET session == sessions[client]
      stored == IF session.pending = None THEN {}
                ELSE RemindersById(Get(session.pending).reminder_id)
  IN
  /\ session.state = "exited"
  /\ ClosesOn(session.exit)
  /\ reminders' = (reminders \ stored) \cup
                    {db_close(row, Get(session.pending)) : row \in stored}
  /\ sessions' = [sessions EXCEPT ![client].state = "closed",
                                  ![client].pending = None,
                                  ![client].closes = @ + 1]
  /\ UNCHANGED <<users, tasks, notifications, tts_history, user_settings,
                 device_sync, accessibility_logs, next_id, now, last, ledger,
                 test_run, seed_run, inflight>>

\* Mutant of NotificationsOfReminders: the relationship has no cascade.
NotificationsOfReminders_NoCascade(gone) == {}

\* Session.delete of a Reminder cascades along Reminder.notifications.
NotificationsOfReminders(gone) ==
  {n \in notifications : \E r \in gone : n.reminder_id = r.reminder_id}

LedgerDelete(gone) ==
  [ledger EXCEPT !.deleted = @ \cup {r.reminder_id : r \in gone}]

delete_reminder(reminder_id) ==
  LET args == [reminder_id |-> reminder_id]
      found == RemindersById(reminder_id)
  IN
  IF found = {}
  THEN /\ Reply("delete_reminder", args, 404, "Reminder not found")
       /\ UNCHANGED <<store, now, ledger, test_run,
                 seed_run, inflight, sessions>>
  ELSE /\ reminders' = reminders \ found
       /\ notifications' = notifications \ NotificationsOfReminders(found)
       /\ ledger' = LedgerDelete(found)
       /\ Reply("delete_reminder", args, 200, "Reminder deleted successfully")
       /\ UNCHANGED <<users, tasks, tts_history, user_settings, device_sync,
                      accessibility_logs, next_id, now, test_run,
                 seed_run, inflight, sessions>>

(* ------------------------ TTS history and settings -------------------- *)
log_tts_usage(user_id, content, context) ==
  LET args == [user_id |-> user_id, content |-> content, context |-> context]
      tts_entry == [tts_id |-> next_id.tts_history,
                    user_id |-> user_id,
                    content |-> content,
                    speech_rate |-> "1.0",
                    volume |-> "1.0",
                    timestamp |-> now,
                    context |-> IF Truthy(context) THEN Get(context)
                                ELSE "app_usage"]
  IN
  IF ~ForeignKeyOk(user_id)
  THEN \* commit raises IntegrityError: an unhandled exception
       /\ Reply("log_tts_usage", args, 500, "Internal Server Error")
       /\ UNCHANGED <<store, now, ledger, test_run,
                 seed_run, inflight, sessions>>
  ELSE /\ next_id.tts_history <= MaxEntries
       /\ tts_history' = tts_history \cup {tts_entry}
       /\ next_id' = Bump("tts_history")
       /\ ledger' = [ledger EXCEPT !.logged = @ \cup
                       {[tts_id |-> tts_entry.tts_id, user_id |-> user_id,
                         timestamp |-> tts_entry.timestamp]}]
       /\ Reply("log_tts_usage", args, 200, "TTS usage logged successfully")
       /\ UNCHANGED <<users, tasks, reminders, notifications, user_settings,
                      device_sync, accessibility_logs, now, test_run,
                 seed_run, inflight, sessions>>

TTSDict(entry) ==
  [tts_id |-> entry.tts_id,
   content |-> entry.content,
   speech_rate |-> entry.speech_rate,
   volume |-> entry.volume,
   timestamp |-> entry.timestamp,
   context |-> entry.context]

\* Mutant of OrderedBefore: ORDER BY timestamp ASC.
OrderedBefore_Ascending(a, b) == a.timestamp <= b.timestamp

\* ORDER BY timestamp DESC: a may come before b.  Rows with equal
\* timestamps may come in either order.
OrderedBefore(a, b) == a.timestamp >= b.timestamp

\* The result lists the server may produce for ORDER BY ... LIMIT limit.
OrderByLimit(rows, limit) ==
  LET n == IF Cardinality(rows) < limit THEN Cardinality(rows) ELSE limit IN
  {SubSeq(f, 1, n) :
     f \in {g \in [1..Cardinality(rows) -> rows] :
              /\ \A i, j \in DOMAIN g : i # j => g[i] # g[j]
              /\ \A i, j \in DOMAIN g : i < j => OrderedBefore(g[i], g[j])}}

get_tts_history(user_id, limit) ==
  /\ \E tts_entries \in
         OrderByLimit({e \in tts_history : e.user_id = user_id}, limit) :
       Reply("get_tts_history", [user_id |-> user_id, limit |-> limit], 200,
             [i \in DOMAIN tts_entries |-> TTSDict(tts_entries[i])])
  /\ UNCHANGED <<store, now, ledger, test_run,
                 seed_run, inflight, sessions>>

\* Mutant of SettingsOf: the filter on user_id is missing.
SettingsOf_AnyUser(user_id, setting_name) ==
  {s \in user_settings : s.setting_name = setting_name}

SettingsOf(user_id, setting_name) ==
  {s \in user_settings : s.user_id = user_id /\ s.setting_name = setting_name}

\* Mutant of update_user_setting: a setting named after a preference key is
\* also written into the user's accessibility_preferences.
update_user_setting_Merges(user_id, setting_name, setting_value) ==
  LET args == [user_id |-> user_id, setting_name |-> setting_name,
               setting_value |-> setting_value]
      found == SettingsOf(user_id, setting_name)
      merged == {IF u.user_id = user_id /\ setting_name = "high_contrast"
                 THEN [u EXCEPT !.accessibility_preferences.high_contrast = TRUE]
                 ELSE u : u \in users}
  IN
  /\ ForeignKeyOk(user_id)
  /\ users' = merged
  /\ user_settings' =
       IF found # {}
       THEN {IF s \in found
             THEN [s EXCEPT !.setting_value = setting_value, !.updated_at = now]
             ELSE s : s \in user_settings}
       ELSE user_settings \cup
              {[setting_id |-> next_id.user_settings, user_id |-> user_id,
                setting_name |-> setting_name, setting_value |-> setting_value,
                updated_at |-> now]}
  /\ next_id' = IF found # {} THEN next_id ELSE Bump("user_settings")
  /\ Reply("update_user_setting", args, 200, "Setting updated successfully")
  /\ UNCHANGED <<tasks, reminders, notifications, tts_history, device_sync,
                 accessibility_logs, now, ledger, test_run, seed_run, inflight,
                 sessions>>

update_user_setting(user_id, setting_name, setting_value) ==
  LET args == [user_id |-> user_id, setting_name |-> setting_name,
               setting_value |-> setting_value]
      found == SettingsOf(user_id, setting_name)
      new_setting == [setting_id |-> next_id.user_settings,
                      user_id |-> user_id,
                      setting_name |-> setting_name,
                      setting_value |-> setting_value,
                      updated_at |-> now]
  IN
  IF found # {}
  THEN \E existing_setting \in found :
         /\ user_settings' = (user_settings \ {existing_setting}) \cup
              {[existing_setting EXCEPT !.setting_value = setting_value,
                                        !.updated_at = now]}
         /\ Reply("update_user_setting", args, 200, "Setting updated successfully")
         /\ UNCHANGED <<users, tasks, reminders, notifications, tts_history,
                        device_sync, accessibility_logs, next_id, now, ledger, test_run,
                 seed_run, inflight, sessions>>
  ELSE IF ~ForeignKeyOk(user_id)
  THEN \* commit raises IntegrityError: an unhandled exception
       /\ Reply("update_user_setting", args, 500, "Internal Server Error")
       /\ UNCHANGED <<store, now, ledger, test_run,
                 seed_run, inflight, sessions>>
  ELSE /\ user_settings' = user_settings \cup {new_setting}
       /\ next_id' = Bump("user_settings")
       /\ Reply("update_user_setting", args, 200, "Setting updated successfully")
       /\ UNCHANGED <<users, tasks, reminders, notifications, tts_history,
                      device_sync, accessibility_logs, now, ledger, test_run,
                 seed_run, inflight, sessions>>

(* ------------------- handlers in two steps ---------------------------- *)
\* A request of another server process (or of any other client of the
\* database) may run between a handler's query and its commit.  The two
\* steps below are the handler cut at that point; inflight[client] holds
\* what the handler has read.
Begin(client, op, args, read) ==
  inflight' = [inflight EXCEPT ![client] =
                 Some([op |-> op, args |-> args, read |-> read])]

End(client) == inflight' = [inflight EXCEPT ![client] = None]

InProgress(client, op) ==
  inflight[client] # None /\ Get(inflight[client]).op = op

\* update_user_setting up to the result of its query.
update_user_setting_query(client, user_id, setting_name, setting_value) ==
  /\ inflight[client] = None
  /\ LET found == SettingsOf(user_id, setting_name)
         args == [user_id |-> user_id, setting_name |-> setting_name,
                  setting_value |-> setting_value]
     IN IF found = {}
        THEN Begin(client, "update_user_setting", args, None)
        ELSE \E existing_setting \in found :
               Begin(client, "update_user_setting", args,
                     Some(existing_setting.setting_id))
  /\ UNCHANGED <<store, now, last, ledger, test_run, seed_run, sessions>>

\* update_user_setting from the branch on existing_setting to its commit.
update_user_setting_commit(client) ==
  /\ InProgress(client, "update_user_setting")
  /\ End(client)
  /\ LET request == Get(inflight[client])
         args == request.args
     IN
     IF request.read # None
     THEN LET loaded == {s \in user_settings :
                           s.setting_id = Get(request.read)}
          IN IF loaded = {}
             THEN \* the UPDATE matches no row: StaleDataError
                  /\ Reply("update_user_setting", args, 500,
                           "Internal Server Error")
                  /\ UNCHANGED <<store, now, ledger, test_run, seed_run, sessions>>
             ELSE /\ user_settings' = (user_settings \ loaded) \cup
                       {[s EXCEPT !.setting_value = args.setting_value,
                                  !.updated_at = now] : s \in loaded}
                  /\ Reply("update_user_setting", args, 200,
                           "Setting updated successfully")
                  /\ UNCHANGED <<users, tasks, reminders, notifications,
                                 tts_history, device_sync, accessibility_logs,
                                 next_id, now, ledger, test_run, seed_run, sessions>>
     ELSE IF ~ForeignKeyOk(args.user_id)
     THEN /\ Reply("update_user_setting", args, 500, "Internal Server Error")
          /\ UNCHANGED <<store, now, ledger, test_run, seed_run, sessions>>
     ELSE /\ user_settings' = user_settings \cup
               {[setting_id |-> next_id.user_settings,
                 user_id |-> args.user_id,
                 setting_name |-> args.setting_name,
                 setting_value |-> args.setting_value,
                 updated_at |-> now]}
          /\ next_id' = Bump("user_settings")
          /\ Reply("update_user_setting", args, 200,
                   "Setting updated successfully")
          /\ UNCHANGED <<users, tasks, reminders, notifications, tts_history,
                         device_sync, accessibility_logs, now, ledger,
                         test_run, seed_run, sessions>>

\* register_user up to the construction of the new User; a request that is
\* rejected before that point is answered at once.
register_user_query(client, email, pin, name) ==
  /\ inflight[client] = None
  /\ IF \/ UsersByEmail(lower(email)) # {}
        \/ ~PinFormatOk(pin)
        \/ split_maxsplit1(strip(name)) = << >>
     THEN register_user(email, pin, name)
     ELSE /\ Begin(client, "register_user",
                   [email |-> email, pin |-> pin, name |-> name], None)
          /\ UNCHANGED <<store, now, last, ledger, test_run, seed_run, sessions>>

\* register_user from db.add(new_user) on.  users.email is unique: the
\* INSERT of an email that has been committed meanwhile raises
\* IntegrityError, which the handler does not catch.
register_user_commit(client) ==
  /\ InProgress(client, "register_user")
  /\ End(client)
  /\ LET args == Get(inflight[client]).args
         new_user == NewUser(args.email, args.pin,
                             split_maxsplit1(strip(args.name)))
     IN
     IF UsersByEmail(lower(args.email)) # {}
     THEN /\ Reply("register_user", args, 500, "Internal Server Error")
          /\ UNCHANGED <<store, now, ledger, test_run, seed_run, sessions>>
     ELSE /\ next_id.users <= MaxUsers
          /\ users' = users \cup {new_user}
          /\ next_id' = Bump("users")
          /\ ledger' = [ledger EXCEPT !.registered = @ \cup
                          {<<new_user.user_id, args.pin>>}]
          /\ Reply("register_user", args, 200, UserResponseWithToken(new_user))
          /\ UNCHANGED <<tasks, reminders, notifications, tts_history,
                         user_settings, device_sync, accessibility_logs,
                         now, test_run, seed_run, sessions>>

(* ------------------- test_model_relationships ------------------------- *)
\* The script works on the same store through the ORM, one commit per
\* step.  An exception in any step ends the run (pc = "failed") without
\* the clean-up; the rows committed so far stay.
\* Mutant of Owned: the relationship has no join condition.
Owned_AnyUser(table, user_id) == table

Owned(table, user_id) == {row \in table : row.user_id = user_id}

TestEmail == <<"t", "@", "x">>

TestGoto(pc) == test_run' = [test_run EXCEPT !.pc = pc]

TestFailed ==
  /\ TestGoto("failed")
  /\ UNCHANGED <<store, now, last, ledger,
                 seed_run, inflight, sessions>>

TestCreateUser ==
  /\ test_run.pc = "start"
  /\ IF UsersByEmail(TestEmail) # {}
     THEN TestFailed   \* IntegrityError on users.email
     ELSE /\ next_id.users <= MaxUsers
          /\ users' = users \cup
               {[user_id |-> next_id.users,
                 email |-> TestEmail,
                 password_hash |-> <<"test_hash">>,
                 first_name |-> <<"T", "e", "s", "t">>,
                 last_name |-> <<"U", "s", "e", "r">>,
                 accessibility_preferences |->
                   [voice_speed |-> "1.0", high_contrast |-> FALSE],
                 timezone |-> "UTC",
                 is_active |-> TRUE]}
          /\ next_id' = Bump("users")
          /\ test_run' = [pc |-> "task", test_user |-> next_id.users,
                          reminder |-> 0]
          /\ UNCHANGED <<tasks, reminders, notifications, tts_history,
                         user_settings, device_sync, accessibility_logs,
                         now, last, ledger,
                 seed_run, inflight, sessions>>

TestCreateTask ==
  /\ test_run.pc = "task"
  /\ IF ~ForeignKeyOk(test_run.test_user) THEN TestFailed
     ELSE /\ tasks' = tasks \cup
               {[id |-> next_id.tasks, user_id |-> test_run.test_user,
                 title |-> "Test Task", priority |-> "medium",
                 status |-> "pending", category |-> "test"]}
          /\ next_id' = Bump("tasks")
          /\ TestGoto("reminder")
          /\ UNCHANGED <<users, reminders, notifications, tts_history,
                         user_settings, device_sync, accessibility_logs,
                         now, last, ledger,
                 seed_run, inflight, sessions>>

TestCreateReminder ==
  /\ test_run.pc = "reminder"
  /\ IF ~ForeignKeyOk(test_run.test_user) THEN TestFailed
     ELSE /\ reminders' = reminders \cup
               {[reminder_id |-> next_id.reminders,
                 user_id |-> test_run.test_user,
                 title |-> "Test Reminder",
                 description |-> Some("This is a test reminder"),
                 reminder_datetime |-> DateTimeColumn(timedelta(utcnow, Hour)),
                 frequency |-> "once",
                 priority |-> "medium",
                 is_active |-> TRUE,
                 is_completed |-> FALSE,
                 completed_at |-> None,
                 created_at |-> now,
                 updated_at |-> now]}
          /\ next_id' = Bump("reminders")
          /\ ledger' = [ledger EXCEPT !.created = @ \cup
                          {<<next_id.reminders, test_run.test_user>>}]
          /\ test_run' = [test_run EXCEPT !.pc = "notification",
                                          !.reminder = next_id.reminders]
          /\ UNCHANGED <<users, tasks, notifications, tts_history,
                         user_settings, device_sync, accessibility_logs,
                         now, last,
                 seed_run, inflight, sessions>>

TestCreateNotification ==
  /\ test_run.pc = "notification"
  /\ IF ~ForeignKeyOk(test_run.test_user) \/ RemindersById(test_run.reminder) = {}
     THEN TestFailed   \* IntegrityError on notifications.reminder_id
     ELSE /\ notifications' = notifications \cup
               {[notification_id |-> next_id.notifications,
                 reminder_id |-> test_run.reminder,
                 user_id |-> test_run.test_user,
                 notification_type |-> "voice",
                 message |-> "Test notification message",
                 scheduled_time |-> DateTimeColumn(timedelta(utcnow, Hour)),
                 sent_time |-> None,
                 status |-> "pending",
                 is_read |-> FALSE]}
          /\ next_id' = Bump("notifications")
          /\ TestGoto("tts_history")
          /\ UNCHANGED <<users, tasks, reminders, tts_history, user_settings,
                         device_sync, accessibility_logs, now, last, ledger,
                 seed_run, inflight, sessions>>

TestCreateTTSHistory ==
  /\ test_run.pc = "tts_history"
  /\ IF ~ForeignKeyOk(test_run.test_user) THEN TestFailed
     ELSE /\ tts_history' = tts_history \cup
               {[tts_id |-> next_id.tts_history,
                 user_id |-> test_run.test_user,
                 content |-> <<"T", "T", "S">>,
                 speech_rate |-> "1.0",
                 volume |-> "1.0",
                 timestamp |-> now,
                 context |-> "test"]}
          /\ next_id' = Bump("tts_history")
          /\ TestGoto("user_settings")
          /\ UNCHANGED <<users, tasks, reminders, notifications, user_settings,
                         device_sync, accessibility_logs, now, last, ledger,
                 seed_run, inflight, sessions>>

TestCreateUserSettings ==
  /\ test_run.pc = "user_settings"
  /\ IF ~ForeignKeyOk(test_run.test_user) THEN TestFailed
     ELSE /\ user_settings' = user_settings \cup
               {[setting_id |-> next_id.user_settings,
                 user_id |-> test_run.test_user,
                 setting_name |-> "test_setting",
                 setting_value |-> "test_value",
                 updated_at |-> now]}
          /\ next_id' = Bump("user_settings")
          /\ TestGoto("device_sync")
          /\ UNCHANGED <<users, tasks, reminders, notifications, tts_history,
                         device_sync, accessibility_logs, now, last, ledger,
                 seed_run, inflight, sessions>>

TestCreateDeviceSync ==
  /\ test_run.pc = "device_sync"
  /\ IF ~ForeignKeyOk(test_run.test_user) THEN TestFailed
     ELSE /\ device_sync' = device_sync \cup
               {[sync_id |-> next_id.device_sync,
                 user_id |-> test_run.test_user,
                 device_identifier |-> "test_device_001",
                 device_name |-> "Test Device",
                 device_type |-> "mobile",
                 platform |-> "test",
                 sync_status |-> "active"]}
          /\ next_id' = Bump("device_sync")
          /\ TestGoto("accessibility_logs")
          /\ UNCHANGED <<users, tasks, reminders, notifications, tts_history,
                         user_settings, accessibility_logs, now, last, ledger,
                 seed_run, inflight, sessions>>

TestCreateAccessibilityLog ==
  /\ test_run.pc = "accessibility_logs"
  /\ IF ~ForeignKeyOk(test_run.test_user) THEN TestFailed
     ELSE /\ accessibility_logs' = accessibility_logs \cup
               {[id |-> next_id.accessibility_logs,
                 user_id |-> test_run.test_user,
                 feature_used |-> "test_feature",
                 action |-> "test_action",
                 session_id |-> "test_session"]}
          /\ next_id' = Bump("accessibility_logs")
          /\ TestGoto("query")
          /\ UNCHANGED <<users, tasks, reminders, notifications, tts_history,
                         user_settings, device_sync, now, last, ledger,
                 seed_run, inflight, sessions>>

\* The relationship collections of a User: the child rows joined on user_id.
Relationships(user_id) ==
  [tasks |-> Owned(tasks, user_id),
   reminders |-> Owned(reminders, user_id),
   notifications |-> Owned(notifications, user_id),
   tts_history |-> Owned(tts_history, user_id),
   user_settings |-> Owned(user_settings, user_id),
   device_sync |-> Owned(device_sync, user_id),
   accessibility_logs |-> Owned(accessibility_logs, user_id)]

TestQueryRelationships ==
  /\ test_run.pc = "query"
  /\ LET rel == Relationships(test_run.test_user) IN
     IF \A name \in DOMAIN rel : Cardinality(rel[name]) = 1
     THEN TestGoto("cleanup")
     ELSE TestGoto("failed")   \* AssertionError
  /\ UNCHANGED <<store, now, last, ledger,
                 seed_run, inflight, sessions>>

\* Mutant of DeleteUser: User.tasks is declared without a delete cascade.
DeleteUser_TasksKept(user_id) ==
  LET gone == Owned(reminders, user_id) IN
  /\ users' = users \ UsersById(user_id)
  /\ tasks' = tasks
  /\ reminders' = reminders \ gone
  /\ notifications' = notifications \
       (Owned(notifications, user_id) \cup NotificationsOfReminders(gone))
  /\ tts_history' = tts_history \ Owned(tts_history, user_id)
  /\ user_settings' = user_settings \ Owned(user_settings, user_id)
  /\ device_sync' = device_sync \ Owned(device_sync, user_id)
  /\ accessibility_logs' = accessibility_logs \ Owned(accessibility_logs, user_id)
  /\ ledger' = LedgerDelete(gone)

\* Session.delete of a User followed by one commit: the cascades of the
\* seven relationships of User, and of Reminder.notifications for each
\* reminder deleted with it.
DeleteUser(user_id) ==
  LET gone == Owned(reminders, user_id) IN
  /\ users' = users \ UsersById(user_id)
  /\ tasks' = tasks \ Owned(tasks, user_id)
  /\ reminders' = reminders \ gone
  /\ notifications' = notifications \
       (Owned(notifications, user_id) \cup NotificationsOfReminders(gone))
  /\ tts_history' = tts_history \ Owned(tts_history, user_id)
  /\ user_settings' = user_settings \ Owned(user_settings, user_id)
  /\ device_sync' = device_sync \ Owned(device_sync, user_id)
  /\ accessibility_logs' = accessibility_logs \ Owned(accessibility_logs, user_id)
  /\ ledger' = LedgerDelete(gone)

TestCleanup ==
  /\ test_run.pc = "cleanup"
  /\ DeleteUser(test_run.test_user)
  /\ TestGoto("done")
  /\ UNCHANGED <<next_id, now, last,
                 seed_run, inflight, sessions>>

test_model_relationships ==
  \/ TestCreateUser
  \/ TestCreateTask
  \/ TestCreateReminder
  \/ TestCreateNotification
  \/ TestCreateTTSHistory
  \/ TestCreateUserSettings
  \/ TestCreateDeviceSync
  \/ TestCreateAccessibilityLog
  \/ TestQueryRelationships
  \/ TestCleanup

(* ---------------------------- seed_database --------------------------- *)
\* The mapped attributes of a User instance: its columns and relationships.
UserAttributes ==
  {"user_id", "email", "password_hash", "first_name", "last_name",
   "accessibility_preferences", "timezone", "is_active", "created_at",
   "updated_at", "reminders", "notifications", "tts_history",
   "user_settings", "device_sync", "tasks", "accessibility_logs"}

SeedEmails == <<<<"j", "@", "x">>, <<"m", "@", "x">>, <<"b", "o", "@", "x">>>>

SeedFirstNames == <<<<"J", "o", "h", "n">>, <<"M", "a", "r", "y">>, <<"B", "o", "b">>>>

SeedLastNames == <<<<"S", "m", "i", "t", "h">>, <<"J", "o", "h", "n", "s", "o", "n">>,
                   <<"W", "i", "l", "s", "o", "n">>>>

SeedTimezones == <<"America/New_York", "America/Chicago", "America/Los_Angeles">>

SeedUser(i) ==
  [user_id |-> next_id.users + i - 1,
   email |-> SeedEmails[i],
   password_hash |-> <<"$2b$", <<"p", "a", "s", "s", "w", "o", "r", "d", "1", "2", "3">>>>,
   first_name |-> SeedFirstNames[i],
   last_name |-> SeedLastNames[i],
   accessibility_preferences |->
     [voice_speed |-> IF i = 1 THEN "0.8" ELSE IF i = 2 THEN "1.0" ELSE "0.7",
      high_contrast |-> i # 2, large_text |-> i # 2,
      voice_navigation |-> TRUE,
      reminder_frequency |-> IF i = 3 THEN "normal" ELSE "high",
      preferred_voice |-> IF i = 1 THEN "enhanced"
                          ELSE IF i = 2 THEN "clear" ELSE "simple"],
   timezone |-> SeedTimezones[i],
   is_active |-> TRUE]

StoreIsEmpty ==
  /\ users = {} /\ tasks = {} /\ reminders = {} /\ notifications = {}
  /\ tts_history = {} /\ user_settings = {} /\ device_sync = {}
  /\ accessibility_logs = {}

\* Mutant of SeedCreateUsers: users.email has no unique index.
SeedCreateUsers_NoUnique ==
  /\ seed_run.pc \in {"start", "failed", "done"}
  /\ next_id.users <= 6
  /\ users' = users \cup {SeedUser(i) : i \in 1..3}
  /\ next_id' = [next_id EXCEPT !.users = @ + 3]
  /\ seed_run' = [pc |-> "tasks",
                  users |-> [i \in 1..3 |-> next_id.users + i - 1],
                  reminders |-> << >>, empty |-> StoreIsEmpty]
  /\ UNCHANGED <<tasks, reminders, notifications, tts_history,
                 user_settings, device_sync, accessibility_logs,
                 now, last, ledger, test_run, inflight, sessions>>

\* create_sample_users: three users in one commit.  A call of seed_database
\* begins when no run is in progress; seed_run.empty records whether the
\* store was empty when the run began.
SeedCreateUsers ==
  /\ seed_run.pc \in {"start", "failed", "done"}
  /\ IF \E i \in 1..3 : UsersByEmail(SeedEmails[i]) # {}
     THEN \* IntegrityError on users.email; except: rollback
          /\ seed_run' = [pc |-> "failed", users |-> << >>,
                          reminders |-> << >>, empty |-> StoreIsEmpty]
          /\ Reply("seed_database", << >>, 200,
                   "Database seeded successfully with sample data")
          /\ UNCHANGED <<store, now, ledger, test_run, inflight, sessions>>
     ELSE /\ users' = users \cup {SeedUser(i) : i \in 1..3}
          /\ next_id' = [next_id EXCEPT !.users = @ + 3]
          /\ seed_run' = [pc |-> "tasks",
                          users |-> [i \in 1..3 |-> next_id.users + i - 1],
                          reminders |-> << >>, empty |-> StoreIsEmpty]
          /\ UNCHANGED <<tasks, reminders, notifications, tts_history,
                         user_settings, device_sync, accessibility_logs,
                         now, last, ledger, test_run, inflight, sessions>>

\* create_sample_tasks reads users[0].id before it builds any Task.  User
\* has no such attribute: AttributeError, caught by seed_database, which
\* rolls back a session with nothing pending and returns.  The stages
\* after create_sample_tasks are not entered, and the endpoint answers 200.
SeedCreateTasks ==
  /\ seed_run.pc = "tasks"
  /\ "id" \notin UserAttributes
  /\ seed_run' = [seed_run EXCEPT !.pc = "failed"]
  /\ Reply("seed_database", << >>, 200,
           "Database seeded successfully with sample data")
  /\ UNCHANGED <<store, now, ledger, test_run, inflight, sessions>>

seed_database ==
  \/ SeedCreateUsers
  \/ SeedCreateTasks

\* The except branch of seed_database for a stage after create_sample_tasks:
\* the stage's rows are rolled back and the run ends.
SeedFailed ==
  /\ seed_run' = [seed_run EXCEPT !.pc = "failed"]
  /\ UNCHANGED <<store, now, last, ledger, test_run, inflight, sessions>>

\* The six sample reminders, two per user: title, description, minutes
\* from utcnow(), frequency, priority.
SampleReminders ==
  <<[title |-> "Medication Reminder", description |-> "Time to take",
     minutes |-> 30, frequency |-> "daily", priority |-> "high"],
    [title |-> "Email Check", description |-> "You have new emails",
     minutes |-> 2 * Hour, frequency |-> "once", priority |-> "medium"],
    [title |-> "Doctor Appointment", description |-> "You have a doctor",
     minutes |-> 12 * Hour, frequency |-> "once", priority |-> "urgent"],
    [title |-> "Pharmacy Call", description |-> "Time to call",
     minutes |-> 4 * Hour, frequency |-> "weekly", priority |-> "high"],
    [title |-> "Daily Walk", description |-> "It's time",
     minutes |-> Hour, frequency |-> "daily", priority |-> "medium"],
    [title |-> "Family Dinner", description |-> "Family dinner",
     minutes |-> 24 * Hour, frequency |-> "once", priority |-> "high"]>>

SeedReminder(k, user_ids) ==
  [reminder_id |-> next_id.reminders + k - 1,
   user_id |-> user_ids[(k + 1) \div 2],
   title |-> SampleReminders[k].title,
   description |-> Some(SampleReminders[k].description),
   reminder_datetime |->
     DateTimeColumn(timedelta(utcnow, SampleReminders[k].minutes)),
   frequency |-> SampleReminders[k].frequency,
   priority |-> SampleReminders[k].priority,
   is_active |-> TRUE,
   is_completed |-> FALSE,
   completed_at |-> None,
   created_at |-> now,
   updated_at |-> now]

\* create_sample_reminders(db, users): six reminders in one commit.
create_sample_reminders(user_ids) ==
  IF \E i \in 1..3 : ~ForeignKeyOk(user_ids[i])
  THEN SeedFailed   \* IntegrityError on reminders.user_id
  ELSE /\ reminders' = reminders \cup
            {SeedReminder(k, user_ids) : k \in 1..Len(SampleReminders)}
       /\ next_id' = [next_id EXCEPT !.reminders = @ + Len(SampleReminders)]
       /\ ledger' = [ledger EXCEPT !.created = @ \cup
                       {<<next_id.reminders + k - 1, user_ids[(k + 1) \div 2]>> :
                          k \in 1..Len(SampleReminders)}]
       /\ seed_run' = [seed_run EXCEPT
                         !.pc = "notifications",
                         !.reminders = [k \in 1..Len(SampleReminders) |->
                                          next_id.reminders + k - 1]]
       /\ UNCHANGED <<users, tasks, notifications, tts_history, user_settings,
                      device_sync, accessibility_logs, now, last, test_run,
                      inflight, sessions>>

\* Mutant of PushStatus: the push notification of the third reminder is
\* marked sent without a sent_time.
PushStatus_Late(i) == IF i < 4 THEN "sent" ELSE "pending"

\* status of the push notification of the reminder at Python index i.
PushStatus(i) == IF i < 3 THEN "sent" ELSE "pending"

\* Mutant of PushPriorities: medium reminders get a push notification too.
PushPriorities_Medium == {"high", "urgent", "medium"}

PushPriorities == {"high", "urgent"}

\* The notifications that the loop of create_notifications appends for the
\* reminder at Python index i (position i + 1 of the list).
NotificationsOf(reminder, i) ==
  <<[reminder_id |-> reminder.reminder_id,
     user_id |-> reminder.user_id,
     notification_type |-> "voice",
     message |-> IF IsNone(reminder.description) \/ Get(reminder.description) = ""
                 THEN reminder.title ELSE Get(reminder.description),
     scheduled_time |-> reminder.reminder_datetime,
     sent_time |-> IF i < 2 THEN Some(now) ELSE None,
     status |-> IF i < 2 THEN "sent" ELSE "pending",
     is_read |-> i < 1]>>
  \o (IF reminder.priority \in PushPriorities
      THEN <<[reminder_id |-> reminder.reminder_id,
              user_id |-> reminder.user_id,
              notification_type |-> "push",
              message |-> <<"Reminder: ", reminder.title>>,
              scheduled_time |->
                DateTimeColumn(timedelta(
                  [ok |-> TRUE, wall |-> reminder.reminder_datetime,
                   tzinfo |-> None], 0 - 5)),
              sent_time |-> IF i < 3 THEN Some(now) ELSE None,
              status |-> PushStatus(i),
              is_read |-> FALSE]>>
      ELSE << >>)

RECURSIVE NotificationList(_, _)
NotificationList(rows, i) ==
  IF i >= Len(rows) THEN << >>
  ELSE NotificationsOf(rows[i + 1], i) \o NotificationList(rows, i + 1)

\* create_notifications(db, users, reminders): the notifications of all
\* reminders in one commit, ids in the order of the list.
create_notifications(reminder_ids) ==
  IF \E k \in 1..Len(reminder_ids) : RemindersById(reminder_ids[k]) = {}
  THEN SeedFailed   \* the reminder is gone: ObjectDeletedError on refresh
  ELSE LET rows == [k \in 1..Len(reminder_ids) |->
                      CHOOSE r \in reminders : r.reminder_id = reminder_ids[k]]
           list == NotificationList(rows, 0)
       IN
       IF \E k \in 1..Len(rows) : ~ForeignKeyOk(rows[k].user_id)
       THEN SeedFailed
       ELSE /\ notifications' = notifications \cup
                 {[notification_id |-> next_id.notifications + n - 1,
                   reminder_id |-> list[n].reminder_id,
                   user_id |-> list[n].user_id,
                   notification_type |-> list[n].notification_type,
                   message |-> list[n].message,
                   scheduled_time |-> list[n].scheduled_time,
                   sent_time |-> list[n].sent_time,
                   status |-> list[n].status,
                   is_read |-> list[n].is_read] : n \in 1..Len(list)}
            /\ next_id' = [next_id EXCEPT !.notifications = @ + Len(list)]
            /\ seed_run' = [seed_run EXCEPT !.pc = "user_settings"]
            /\ UNCHANGED <<users, tasks, reminders, tts_history, user_settings,
                           device_sync, accessibility_logs, now, last, ledger,
                           test_run, inflight, sessions>>

(* -------------------------- the specifications ------------------------ *)
\* Request inputs.  Each specification below runs the same handlers on the
\* same store and differs only in the requests it issues.
Emails == {<<"a", "@", "x">>, <<"A", "@", "X">>, <<"b", "@", "x">>}
Pins == {<<"1", "2", "3", "4">>, <<"0", "0", "0", "0">>,
         <<"1", "2", "a", "4">>, <<"1", "2", "3">>}
Names == {<<"A", "l", " ", "B">>, <<"A", "l">>, <<" ">>}
UserIds == 1..MaxUsers
ReminderIds == 1..MaxReminders

DateTexts == {None, Some(<< >>), Some(<<"soon">>), Some(<<"T01:40", "Z">>)}

ReminderCreates ==
  {[title |-> "Take pill", description |-> None, reminder_datetime |-> d,
    frequency |-> "daily", priority |-> "high"] : d \in DateTexts}

NoUpdate ==
  [title |-> None, description |-> None, reminder_datetime |-> None,
   frequency |-> None, priority |-> None, is_active |-> None,
   is_completed |-> None]

ReminderUpdates ==
  {[NoUpdate EXCEPT !.is_completed = Some(TRUE)],
   [NoUpdate EXCEPT !.is_completed = Some(FALSE)],
   [NoUpdate EXCEPT !.is_active = Some(FALSE)],
   [NoUpdate EXCEPT !.title = Some("Take pills"),
                    !.description = Some("With water"),
                    !.reminder_datetime = Some(<<"soon">>)]}

FlagUpdates ==
  {[NoUpdate EXCEPT !.is_completed = Some(TRUE)],
   [NoUpdate EXCEPT !.is_active = Some(FALSE)]}

PatchUpdates ==
  {[NoUpdate EXCEPT !.title = Some("Take pills"),
                    !.description = Some("With water")],
   [NoUpdate EXCEPT !.priority = Some("low"), !.is_completed = Some(TRUE)],
   [NoUpdate EXCEPT !.reminder_datetime = Some(<<"T01:40", "Z">>)]}

SettingNames == {"theme", "high_contrast"}
SettingValues == {"dark", "auto"}

\* A well-formed registration, for the specifications that are not about
\* registration itself.
SignUp(email) ==
  register_user(email, <<"1", "2", "3", "4">>, <<"A", "l", " ", "B">>)

\* Registration and login.
NextAuth ==
  \/ \E email \in Emails, pin \in Pins, name \in Names :
       register_user(email, pin, name)
  \/ \E email \in Emails, pin \in Pins : login_user(email, pin)
  \/ \E user_id \in UserIds : DeactivateUser(user_id)
  \/ Tick

SpecAuth == Init /\ [][NextAuth]_vars

\* Creating, listing and deleting reminders, beside a run of the
\* relationship test.
NextReminders ==
  \/ SignUp(<<"a", "@", "x">>)
  \/ \E user_id \in UserIds : get_user_reminders(user_id)
  \/ \E user_id \in UserIds, reminder_data \in ReminderCreates :
       create_reminder(user_id, reminder_data)
  \/ \E reminder_id \in ReminderIds : delete_reminder(reminder_id)
  \/ test_model_relationships

SpecReminders == Init /\ [][NextReminders]_vars

\* Updating and deleting the reminders of the relationship test's user.
NextLifecycle ==
  \/ \E user_id \in UserIds :
       create_reminder(user_id,
         [title |-> "Take pill", description |-> None,
          reminder_datetime |-> None, frequency |-> "daily",
          priority |-> "high"])
  \/ \E reminder_id \in ReminderIds, update_data \in ReminderUpdates :
       update_reminder(reminder_id, update_data)
  \/ \E reminder_id \in ReminderIds : delete_reminder(reminder_id)
  \/ test_model_relationships

SpecLifecycle == Init /\ [][NextLifecycle]_vars

\* The settings endpoint.
NextSettings ==
  \/ \E email \in {<<"a", "@", "x">>, <<"b", "@", "x">>} : SignUp(email)
  \/ \E user_id \in UserIds, setting_name \in SettingNames,
        setting_value \in SettingValues :
       update_user_setting(user_id, setting_name, setting_value)

SpecSettings == Init /\ [][NextSettings]_vars

\* Rows of every table, and the delete of a user.
NextCascade ==
  \/ SignUp(<<"a", "@", "x">>)
  \/ \E user_id \in UserIds :
       create_reminder(user_id,
         [title |-> "Take pill", description |-> None,
          reminder_datetime |-> None, frequency |-> "daily",
          priority |-> "high"])
  \/ \E user_id \in UserIds :
       next_id.tts_history <= MaxRows /\ log_tts_usage(user_id, <<"h", "i">>, None)
  \/ \E user_id \in UserIds : update_user_setting(user_id, "theme", "dark")
  \/ test_model_relationships

SpecCascade == Init /\ [][NextCascade]_vars

\* Creating reminders while the clock advances.
NextSchedule ==
  \/ SignUp(<<"a", "@", "x">>)
  \/ \E user_id \in UserIds, reminder_data \in ReminderCreates :
       create_reminder(user_id, reminder_data)
  \/ Tick

SpecSchedule == Init /\ [][NextSchedule]_vars

\* Logging and reading the TTS history of two users while the clock
\* advances.
Limits == {1, 2, 10}

NextTTS ==
  \/ \E email \in {<<"a", "@", "x">>, <<"b", "@", "x">>} : SignUp(email)
  \/ \E user_id \in UserIds : log_tts_usage(user_id, <<"h", "i">>, None)
  \/ \E user_id \in UserIds, limit \in Limits : get_tts_history(user_id, limit)
  \/ Tick

SpecTTS == Init /\ [][NextTTS]_vars

\* A run of seed_database beside requests that only read.
NextSeed ==
  \/ seed_database
  \/ \E email \in {SeedEmails[1], SeedEmails[3], <<"a", "@", "x">>}, pin \in Pins :
       login_user(email, pin)
  \/ \E user_id \in UserIds : get_user_reminders(user_id)
  \/ \E user_id \in UserIds, limit \in Limits : get_tts_history(user_id, limit)
  \/ Tick

SpecSeed == Init /\ [][NextSeed]_vars

\* Settings requests of several clients in progress at the same time.
NextSettingsRace ==
  \/ SignUp(<<"a", "@", "x">>)
  \/ \E client \in Clients, user_id \in UserIds,
        setting_value \in SettingValues :
       update_user_setting_query(client, user_id, "theme", setting_value)
  \/ \E client \in Clients : update_user_setting_commit(client)

SpecSettingsRace == Init /\ [][NextSettingsRace]_vars

\* Registrations of several clients in progress at the same time.
NextRegisterRace ==
  \/ \E client \in Clients,
        email \in Emails,
        pin \in {<<"1", "2", "3", "4">>, <<"1", "2", "3">>} :
       register_user_query(client, email, pin, <<"A", "l">>)
  \/ \E client \in Clients : register_user_commit(client)
  \/ \E pin \in {<<"1", "2", "3", "4">>, <<"0", "0", "0", "0">>} :
       login_user(<<"a", "@", "x">>, pin)

SpecRegisterRace == Init /\ [][NextRegisterRace]_vars

\* Operations that end in a failure of the store or of the script.
NextFailure ==
  \/ SignUp(<<"a", "@", "x">>)
  \/ \E user_id \in UserIds :
       create_reminder(user_id,
         [title |-> "Take pill", description |-> None,
          reminder_datetime |-> None, frequency |-> "daily",
          priority |-> "high"])
  \/ \E user_id \in UserIds, reminder_data \in ReminderCreates :
       create_reminder_commit_fails(user_id, reminder_data)
  \/ seed_database
  \/ Tick

SpecFailure == Init /\ [][NextFailure]_vars

\* One reminder that falls due while other requests are served.
NextFlags ==
  \/ SignUp(<<"a", "@", "x">>)
  \/ reminders = {} /\ create_reminder(1,
       [title |-> "Take pill", description |-> None,
        reminder_datetime |-> Some(<<"T00:00">>), frequency |-> "daily",
        priority |-> "high"])
  \/ \E reminder_id \in ReminderIds, update_data \in FlagUpdates :
       update_reminder(reminder_id, update_data)
  \/ get_user_reminders(1)
  \/ login_user(<<"a", "@", "x">>, <<"1", "2", "3", "4">>)
  \/ update_user_setting(1, "theme", "dark")
  \/ tts_history = {} /\ log_tts_usage(1, <<"h", "i">>, None)
  \/ Tick

SpecFlags == Init /\ [][NextFlags]_vars

\* Partial updates of reminders while the clock advances.
NextPatch ==
  \/ SignUp(<<"a", "@", "x">>)
  \/ create_reminder(1,
       [title |-> "Take pill", description |-> None,
        reminder_datetime |-> None, frequency |-> "daily",
        priority |-> "high"])
  \/ \E reminder_id \in ReminderIds, update_data \in PatchUpdates :
       update_reminder(reminder_id, update_data)
  \/ Tick

SpecPatch == Init /\ [][NextPatch]_vars

\* The stages of seed_data.py that follow create_sample_tasks, called on
\* the users that create_sample_users returned, beside requests that read.
NextSeedStages ==
  \/ SeedCreateUsers
  \/ seed_run.pc = "tasks" /\ create_sample_reminders(seed_run.users)
  \/ seed_run.pc = "notifications" /\ create_notifications(seed_run.reminders)
  \/ SignUp(<<"a", "@", "x">>)
  \/ create_reminder(1,
       [title |-> "Take pill", description |-> None,
        reminder_datetime |-> None, frequency |-> "daily",
        priority |-> "high"])
  \/ \E user_id \in 1..3 : get_user_reminders(user_id)
  \/ Tick

SpecSeedStages == Init /\ [][NextSeedStages]_vars

\* Reminder times given with and without a zone designator, and texts
\* that are no time.
ZonedTexts ==
  {Some(<<"T01:40">>), Some(<<"T01:40", "Z">>), Some(<<"T03:20", "+00:00">>),
   Some(<<"T01:40", "+01:00">>), Some(<< >>), Some(<<"soon">>)}

NextZones ==
  \/ SignUp(<<"a", "@", "x">>)
  \/ \E text \in ZonedTexts :
       create_reminder(1,
         [title |-> "Take pill", description |-> None,
          reminder_datetime |-> text, frequency |-> "daily",
          priority |-> "high"])
  \/ \E reminder_id \in ReminderIds, text \in ZonedTexts :
       update_reminder(reminder_id,
                       [NoUpdate EXCEPT !.reminder_datetime = text])
  \/ \E user_id \in UserIds : get_user_reminders(user_id)
  \/ Tick

SpecZones == Init /\ [][NextZones]_vars

\* Updates of one reminder by clients that each hold a session, beside
\* requests that read.  The event loop runs a handler to its end and then
\* the exit code of its dependencies, hence the fairness conditions.
SessionUpdates ==
  {[NoUpdate EXCEPT !.title = Some("Take pills")],
   [NoUpdate EXCEPT !.title = Some("Take pills"),
                    !.description = Some("With water"),
                    !.reminder_datetime = Some(<<"soon">>)]}

Handler(client) ==
  \E reminder_id \in ReminderIds, update_data \in SessionUpdates,
     commit_ok \in BOOLEAN :
    update_reminder_session(client, reminder_id, update_data, commit_ok)

NextSessions ==
  \/ SignUp(<<"a", "@", "x">>)
  \/ reminders = {} /\ create_reminder(1,
       [title |-> "Take pill", description |-> None,
        reminder_datetime |-> None, frequency |-> "daily",
        priority |-> "high"])
  \/ \E client \in Clients : get_db(client)
  \/ \E client \in Clients : Handler(client)
  \/ \E client \in Clients : get_db_finally(client)
  \/ get_user_reminders(1)

SpecSessions ==
  /\ Init /\ [][NextSessions]_vars
  /\ \A client \in Clients :
       WF_vars(Handler(client)) /\ WF_vars(get_db_finally(client))

(* ------------------------------- claims ------------------------------- *)
\* Vocabulary of the claims, stated without the handlers' own helpers.
SameLetter(c, d) ==
  c = d \/ {c, d} \in {{"a", "A"}, {"b", "B"}, {"x", "X"}, {"t", "T"}}

EqualIgnoringCase(s, t) ==
  Len(s) = Len(t) /\ \A i \in 1..Len(s) : SameLetter(s[i], t[i])

NoUpperCase(s) == \A i \in 1..Len(s) : s[i] \notin {"A", "B", "X", "T"}

FourDigits(pin) ==
  /\ Len(pin) = 4
  /\ \A i \in 1..4 :
       pin[i] \in {"0", "1", "2", "3", "4", "5", "6", "7", "8", "9"}

Registered(email) == {u \in users : EqualIgnoringCase(u.email, email)}

\* The step is a call of the named handler, with the arguments last' records.
Registers ==
  /\ last'.op = "register_user"
  /\ register_user(last'.args.email, last'.args.pin, last'.args.name)

LogsIn ==
  /\ last'.op = "login_user"
  /\ login_user(last'.args.email, last'.args.pin)

\* C1: no two User rows have emails equal ignoring case, and a register_user
\* call whose email equals, ignoring case, that of an existing user is
\* rejected with 400 and creates no user.
C1_EmailUniqueIgnoringCase ==
  [][ /\ \A u1, u2 \in users' :
           EqualIgnoringCase(u1.email, u2.email) => u1 = u2
      /\ (Registers /\ Registered(last'.args.email) # {})
           => (last'.status = 400 /\ users' = users) ]_vars

\* C1 witness: a registration was rejected for an email that differs from a
\* stored one only in case.
C1_Witness ==
  /\ last.op = "register_user"
  /\ last.status = 400
  /\ FourDigits(last.args.pin)
  /\ \E u \in users : /\ EqualIgnoringCase(u.email, last.args.email)
                      /\ u.email # last.args.email

\* C2: register_user answers 400 and creates no user when the PIN is not
\* exactly four digits or the email is already registered, and in every
\* other case creates exactly one active user with the lower-cased email and
\* answers 200 with that user and an access token.
C2_RegisterOutcomes ==
  [][ Registers =>
        LET email == last'.args.email
            pin == last'.args.pin
        IN
          IF ~FourDigits(pin) \/ Registered(email) # {}
          THEN last'.status = 400 /\ users' = users
          ELSE /\ last'.status = 200
               /\ \E u \in users' \ users :
                    /\ users' = users \cup {u}
                    /\ u.is_active
                    /\ EqualIgnoringCase(u.email, email)
                    /\ NoUpperCase(u.email)
                    /\ last'.body.user_id = u.user_id
                    /\ last'.body.access_token.sub = u.user_id ]_vars

\* C3: login_user answers 401 for an unknown email or a PIN other than the
\* one the user registered with, 403 when the PIN matches and the user is
\* inactive, 200 with the user and a token otherwise (email matched ignoring
\* case); the store is unchanged in every outcome.
C3_LoginOutcomes ==
  [][ LogsIn =>
        LET email == last'.args.email
            pin == last'.args.pin
        IN
          /\ store' = store
          /\ IF Registered(email) = {}
             THEN last'.status = 401
             ELSE \A u \in Registered(email) :
                    IF <<u.user_id, pin>> \notin ledger.registered
                    THEN last'.status = 401
                    ELSE IF ~u.is_active
                    THEN last'.status = 403
                    ELSE /\ last'.status = 200
                         /\ last'.body.user_id = u.user_id
                         /\ last'.body.access_token.sub = u.user_id ]_vars

\* C3 witness: a login succeeded with an email written in another case than
\* the stored one.
C3_Witness ==
  /\ last.op = "login_user"
  /\ last.status = 200
  /\ \E u \in users : /\ u.user_id = last.body.user_id
                      /\ u.email # last.args.email

Creates ==
  /\ last'.op = "create_reminder"
  /\ create_reminder(last'.args.user_id, last'.args.reminder_data)

Updates ==
  /\ last'.op = "update_reminder"
  /\ update_reminder(last'.args.reminder_id, last'.args.update_data)

Deletes ==
  /\ last'.op = "delete_reminder"
  /\ delete_reminder(last'.args.reminder_id)

Lists ==
  /\ last'.op = "get_user_reminders"
  /\ get_user_reminders(last'.args.user_id)

Sets ==
  /\ last'.op = "update_user_setting"
  /\ update_user_setting(last'.args.user_id, last'.args.setting_name,
                         last'.args.setting_value)

Exists(user_id) == \E u \in users : u.user_id = user_id

Others(table, user_id) == {row \in table : row.user_id # user_id}

\* C4: a step that deletes a User removes every Task, Reminder,
\* Notification, TTSHistory, UserSettings, DeviceSync and AccessibilityLog
\* row of that user and every Notification of that user's reminders, all in
\* that one step, and removes no row of any other user.
C4_DeleteUserCascade ==
  [][ \A u \in UserIds :
        (Exists(u) /\ ~(\E x \in users' : x.user_id = u)) =>
          LET mine == {r.reminder_id : r \in {x \in reminders : x.user_id = u}}
          IN
          /\ users' = Others(users, u)
          /\ tasks' = Others(tasks, u)
          /\ reminders' = Others(reminders, u)
          /\ notifications' = Others(notifications, u)
          /\ tts_history' = Others(tts_history, u)
          /\ user_settings' = Others(user_settings, u)
          /\ device_sync' = Others(device_sync, u)
          /\ accessibility_logs' = Others(accessibility_logs, u)
          /\ \A n \in notifications' : n.reminder_id \notin mine ]_vars

\* C4 witness: the user of the relationship test was deleted after having
\* one row of every kind, and rows of another user are still there.
C4_Witness ==
  /\ test_run.pc = "done"
  /\ ~Exists(test_run.test_user)
  /\ users # {}
  /\ reminders # {}
  /\ tts_history # {}
  /\ user_settings # {}

\* C5: delete_reminder on an existing id removes exactly that Reminder and
\* the Notifications with that reminder_id, whatever its is_active and
\* is_completed, and leaves every other row as it was; on an absent id it
\* answers 404 and changes nothing.
C5_DeleteReminder ==
  [][ Deletes =>
        LET id == last'.args.reminder_id
            hit == {r \in reminders : r.reminder_id = id}
        IN
        IF hit # {}
        THEN /\ last'.status = 200
             /\ reminders' = reminders \ hit
             /\ Cardinality(reminders') = Cardinality(reminders) - 1
             /\ notifications' = {n \in notifications : n.reminder_id # id}
             /\ <<users, tasks, tts_history, user_settings, device_sync,
                  accessibility_logs>>' =
                <<users, tasks, tts_history, user_settings, device_sync,
                  accessibility_logs>>
        ELSE last'.status = 404 /\ store' = store ]_vars

\* C5 witness: a delete_reminder succeeded on the reminder that had a
\* notification, the notification went with it, and another reminder is
\* still stored.
C5_Witness ==
  /\ last.op = "delete_reminder"
  /\ last.status = 200
  /\ test_run.pc \notin {"start", "done"}
  /\ next_id.notifications > 1
  /\ notifications = {}
  /\ reminders # {}

\* C6: update_reminder with is_completed = true sets completed_at to the time
\* of the update; with is_completed = false it leaves completed_at as it was.
C6_CompletedAt ==
  [][ (Updates /\ last'.status = 200) =>
        LET id == last'.args.reminder_id
            flag == last'.args.update_data.is_completed
        IN \A old \in {r \in reminders : r.reminder_id = id},
              new \in {r \in reminders' : r.reminder_id = id} :
             /\ flag = Some(TRUE) => new.completed_at = Some(now)
             /\ flag = Some(FALSE) => new.completed_at = old.completed_at ]_vars

\* C7: an update_user_setting call for an existing user leaves exactly one
\* UserSettings row for that (user_id, setting_name), holding the value of
\* the call (so after two calls in sequence, the value of the second); it
\* adds exactly one row when the pair had none and none otherwise, and
\* touches no row of another pair.
C7_SettingUpsert ==
  [][ (Sets /\ Exists(last'.args.user_id)) =>
        LET u == last'.args.user_id
            name == last'.args.setting_name
            Pair(table) ==
              {s \in table : s.user_id = u /\ s.setting_name = name}
        IN
        /\ last'.status = 200
        /\ Cardinality(Pair(user_settings')) = 1
        /\ \A s \in Pair(user_settings') :
             s.setting_value = last'.args.setting_value
        /\ user_settings' \ Pair(user_settings') =
             user_settings \ Pair(user_settings)
        /\ Cardinality(user_settings') =
             IF Pair(user_settings) = {} THEN Cardinality(user_settings) + 1
             ELSE Cardinality(user_settings) ]_vars

\* C7 witness: the last call wrote a pair whose row is older than the newest
\* row, so it was a second write to that pair, and the row holds its value.
C7_Witness ==
  /\ last.op = "update_user_setting"
  /\ last.status = 200
  /\ \E s \in user_settings :
       /\ s.user_id = last.args.user_id
       /\ s.setting_name = last.args.setting_name
       /\ s.setting_value = last.args.setting_value
       /\ s.setting_id < next_id.user_settings - 1

\* C8: get_user_reminders(u) returns exactly the reminders created for u and
\* not deleted since, one entry each; so one entry, active and not
\* completed, after the first create_reminder, and none after its delete.
C8_ListReminders ==
  [][ Lists =>
        LET u == last'.args.user_id
            created == {c[1] : c \in {x \in ledger.created : x[2] = u}}
        IN
        /\ last'.status = 200
        /\ {d.reminder_id : d \in last'.body} = created \ ledger.deleted
        /\ Cardinality(last'.body) = Cardinality(created \ ledger.deleted)
        /\ \A d \in last'.body : d.is_active /\ ~d.is_completed ]_vars

\* C8 witness: the list of an existing user came back empty after a reminder
\* had been created for that user and deleted.
C8_Witness ==
  /\ last.op = "get_user_reminders"
  /\ last.body = {}
  /\ Exists(last.args.user_id)
  /\ \E c \in ledger.created :
       c[2] = last.args.user_id /\ c[1] \in ledger.deleted

\* The texts that denote a timestamp.
IsoTexts ==
  {<<d>> : d \in {"T00:00", "T01:40", "T03:20"}} \cup
  {<<d, z>> : d \in {"T00:00", "T01:40", "T03:20"},
              z \in {"Z", "+00:00", "+01:00"}}

\* C9: create_reminder answers 404 for a user_id that does not exist, and 400
\* for a provided reminder_datetime that cannot be parsed; in both cases the
\* store is unchanged.
C9_CreateRejects ==
  [][ Creates =>
        LET text == last'.args.reminder_data.reminder_datetime IN
        IF ~Exists(last'.args.user_id)
        THEN last'.status = 404 /\ store' = store
        ELSE (text # None /\ Get(text) \notin IsoTexts)
               => (last'.status = 400 /\ store' = store) ]_vars

\* C10: get_user_reminders answers 404 when no user has the given id.
C10_ListUnknownUser ==
  [][ (Lists /\ ~Exists(last'.args.user_id)) => last'.status = 404 ]_vars

\* C11: a create_reminder that succeeds adds one reminder that is active,
\* not completed and has no completed_at; when reminder_datetime was omitted
\* its scheduled time is the creation time plus one hour.
C11_DefaultSchedule ==
  [][ (Creates /\ last'.status = 200) =>
        \E r \in reminders' \ reminders :
          /\ reminders' = reminders \cup {r}
          /\ r.reminder_id = last'.body.reminder_id
          /\ r.user_id = last'.args.user_id
          /\ r.is_active /\ ~r.is_completed /\ r.completed_at = None
          /\ r.created_at = now
          /\ last'.args.reminder_data.reminder_datetime = None
               => (r.reminder_datetime = now + 60
                   /\ last'.body.reminder_datetime = now + 60) ]_vars

\* C11 witness: a reminder created without a reminder_datetime, after the
\* clock had advanced, is scheduled one hour after its creation.
C11_Witness ==
  /\ last.op = "create_reminder"
  /\ last.status = 200
  /\ last.args.reminder_data.reminder_datetime = None
  /\ \E r \in reminders :
       /\ r.reminder_id = last.body.reminder_id
       /\ r.created_at > 0
       /\ r.reminder_datetime = r.created_at + 60

Reads ==
  /\ last'.op = "get_tts_history"
  /\ get_tts_history(last'.args.user_id, last'.args.limit)

\* C12: get_tts_history(u, n) returns entries logged for u only, each once,
\* min(n, number logged for u) of them, in order of non-increasing
\* timestamp, and no entry of u left out is newer than a returned one.
C12_TTSHistoryNewestFirst ==
  [][ Reads =>
        LET u == last'.args.user_id
            n == last'.args.limit
            body == last'.body
            mine == {e \in ledger.logged : e.user_id = u}
            shown == {body[i].tts_id : i \in DOMAIN body}
        IN
        /\ last'.status = 200
        /\ Len(body) = IF Cardinality(mine) < n THEN Cardinality(mine) ELSE n
        /\ Cardinality(shown) = Len(body)
        /\ \A i \in DOMAIN body :
             \E e \in mine : e.tts_id = body[i].tts_id
                             /\ e.timestamp = body[i].timestamp
        /\ \A i, j \in DOMAIN body :
             i < j => body[i].timestamp >= body[j].timestamp
        /\ \A e \in mine :
             e.tts_id \notin shown =>
               \A i \in DOMAIN body : e.timestamp <= body[i].timestamp ]_vars

\* C12 witness: a read with limit 1 returned the newest entry of the user,
\* leaving out an older entry of that user and an entry of the other user
\* that is as new as the one returned.
C12_Witness ==
  /\ last.op = "get_tts_history"
  /\ last.args.limit = 1
  /\ Len(last.body) = 1
  /\ \E e \in tts_history :
       /\ e.user_id = last.args.user_id
       /\ e.timestamp < last.body[1].timestamp
  /\ \E e \in tts_history :
       /\ e.user_id # last.args.user_id
       /\ e.timestamp >= last.body[1].timestamp

\* C13: when seed_database has run on an empty store, there are exactly 3
\* users, and each owns exactly 2 tasks, 2 reminders, 8 settings, 2 TTS
\* entries, 1 device sync record and 3 accessibility logs.
C13_SeedCounts ==
  (seed_run.pc \in {"done", "failed"} /\ seed_run.empty) =>
    /\ Cardinality(users) = 3
    /\ \A u \in users :
         LET Mine(table) == Cardinality({row \in table : row.user_id = u.user_id})
         IN /\ Mine(tasks) = 2
            /\ Mine(reminders) = 2
            /\ Mine(user_settings) = 8
            /\ Mine(tts_history) = 2
            /\ Mine(device_sync) = 1
            /\ Mine(accessibility_logs) = 3

\* The relationship test's user has no child row written through the API.
OnlyTestRows ==
  /\ \A c \in ledger.created :
       c[2] = test_run.test_user => c[1] = test_run.reminder
  /\ \A e \in ledger.logged : e.user_id # test_run.test_user
  /\ \A s \in user_settings :
       s.user_id = test_run.test_user => s.setting_name = "test_setting"

\* C14: each ownership collection of a user holds exactly the child rows
\* whose user_id is that user's id; once the relationship test has created
\* one child of each type for its fresh user, each of that user's seven
\* collections has exactly one element.
C14_OwnershipCollections ==
  /\ \A u \in users :
       LET rel == Relationships(u.user_id)
           Mine(table) == {row \in table : row.user_id = u.user_id}
       IN /\ rel.tasks = Mine(tasks)
          /\ rel.reminders = Mine(reminders)
          /\ rel.notifications = Mine(notifications)
          /\ rel.tts_history = Mine(tts_history)
          /\ rel.user_settings = Mine(user_settings)
          /\ rel.device_sync = Mine(device_sync)
          /\ rel.accessibility_logs = Mine(accessibility_logs)
  /\ (test_run.pc \in {"query", "cleanup"} /\ OnlyTestRows) =>
       LET rel == Relationships(test_run.test_user) IN
       \A name \in DOMAIN rel : Cardinality(rel[name]) = 1

\* C14 witness: the relationship test found one element in each collection
\* of its user while another user owned a reminder, a TTS entry and a
\* setting.
C14_Witness ==
  /\ test_run.pc = "cleanup"
  /\ \E r \in reminders : r.user_id # test_run.test_user
  /\ \E e \in tts_history : e.user_id # test_run.test_user
  /\ \E s \in user_settings : s.user_id # test_run.test_user

\* C15: in every reachable state, also when update_user_setting requests
\* for the same user and setting_name each run their existence check before
\* the other commits, there is at most one UserSettings row per
\* (user_id, setting_name).
C15_OneRowPerSetting ==
  \A s1, s2 \in user_settings :
    (s1.user_id = s2.user_id /\ s1.setting_name = s2.setting_name) => s1 = s2

\* C16: when a register_user request that passed the existence check
\* commits after another request has registered the same email, no User
\* row is added and it is answered 400; otherwise exactly one row is added
\* and it is answered 200.
C16_ConcurrentRegister ==
  [][ \A client \in Clients :
        (InProgress(client, "register_user") /\ register_user_commit(client)) =>
          LET email == Get(inflight[client]).args.email IN
          IF Registered(email) # {}
          THEN last'.status = 400 /\ users' = users
          ELSE /\ last'.status = 200
               /\ \E u \in users' \ users :
                    users' = users \cup {u} /\ EqualIgnoringCase(u.email, email)
    ]_vars

\* C17: an operation that ends in a store failure leaves no partial write:
\* a create_reminder answered 500 leaves the store as it was, and when a run
\* of seed_database ends in a failure none of the rows it wrote is in the
\* store.
C17_NoPartialWrites ==
  [][ /\ (/\ last'.op = "create_reminder"
          /\ last'.status = 500
          /\ create_reminder_commit_fails(last'.args.user_id,
                                          last'.args.reminder_data))
           => store' = store
      /\ (seed_run.pc # "failed" /\ seed_run'.pc = "failed")
           => \A u \in users' :
                \A i \in DOMAIN seed_run'.users :
                  u.user_id # seed_run'.users[i] ]_vars

\* C18: update_reminder with a reminder_datetime that cannot be parsed
\* answers 400 on an existing reminder and leaves the store, and so the
\* stored reminder, exactly as it was, also when the request carries a title
\* and a description.
C18_RejectedUpdateWritesNothing ==
  [][ Updates =>
        LET text == last'.args.update_data.reminder_datetime
            id == last'.args.reminder_id
        IN
        (/\ text # None
         /\ Get(text) \notin IsoTexts
         /\ \E r \in reminders : r.reminder_id = id)
          => (last'.status = 400 /\ store' = store) ]_vars

\* C18 witness: an update carrying a new title, a new description and an
\* unparsable reminder_datetime was answered 400, and the reminder still has
\* its other title and description.
C18_Witness ==
  /\ last.op = "update_reminder"
  /\ last.status = 400
  /\ last.args.update_data.title # None
  /\ last.args.update_data.description # None
  /\ \E r \in reminders :
       /\ r.reminder_id = last.args.reminder_id
       /\ r.title # Get(last.args.update_data.title)
       /\ r.description # last.args.update_data.description

Patched(supplied, old) == IF supplied = None THEN old ELSE Get(supplied)

\* C20: update_reminder on an absent id answers 404 and changes nothing; on
\* an existing id, when it succeeds, every supplied field has the supplied
\* value, every omitted field, reminder_id, user_id and created_at are as
\* before, updated_at is the time of the update, and no other row changes.
C20_UpdatePatch ==
  [][ Updates =>
        LET id == last'.args.reminder_id
            upd == last'.args.update_data
            hit == {r \in reminders : r.reminder_id = id}
        IN
        IF hit = {}
        THEN last'.status = 404 /\ store' = store
        ELSE last'.status = 200 =>
               \A old \in hit :
                 \E new \in reminders' :
                   /\ reminders' = (reminders \ {old}) \cup {new}
                   /\ new.reminder_id = old.reminder_id
                   /\ new.user_id = old.user_id
                   /\ new.created_at = old.created_at
                   /\ new.completed_at = old.completed_at
                   /\ new.title = Patched(upd.title, old.title)
                   /\ new.description =
                        IF upd.description = None THEN old.description
                        ELSE upd.description
                   /\ new.frequency = Patched(upd.frequency, old.frequency)
                   /\ new.priority = Patched(upd.priority, old.priority)
                   /\ new.is_active = Patched(upd.is_active, old.is_active)
                   /\ new.is_completed =
                        Patched(upd.is_completed, old.is_completed)
                   /\ upd.reminder_datetime = None =>
                        new.reminder_datetime = old.reminder_datetime
                   /\ upd.reminder_datetime = Some(<<"T01:40", "Z">>) =>
                        new.reminder_datetime = 100
                   /\ new.updated_at = now ]_vars

\* The step in which create_notifications commits.
SeedsNotifications ==
  seed_run.pc = "notifications" /\ seed_run'.pc = "user_settings"

\* The reminders the seed run created.
SeededReminders ==
  {r \in reminders : \E k \in 1..Len(seed_run.reminders) :
                       seed_run.reminders[k] = r.reminder_id}

\* C21: create_notifications adds, for every seeded reminder, exactly one
\* voice notification scheduled at the reminder's datetime, and exactly one
\* push notification scheduled 5 minutes earlier if and only if the
\* priority is high or urgent; every notification it adds belongs to a
\* seeded reminder and carries that reminder's user_id.
C21_SeedNotifications ==
  [][ SeedsNotifications =>
        LET added == notifications' \ notifications
            Of(r, type) == {n \in added : /\ n.reminder_id = r.reminder_id
                                           /\ n.notification_type = type}
        IN
        /\ notifications \subseteq notifications'
        /\ \A r \in SeededReminders :
             /\ Cardinality(Of(r, "voice")) = 1
             /\ \A n \in Of(r, "voice") :
                  n.scheduled_time = r.reminder_datetime
             /\ Cardinality(Of(r, "push")) =
                  IF r.priority = "high" \/ r.priority = "urgent" THEN 1 ELSE 0
             /\ \A n \in Of(r, "push") :
                  n.scheduled_time = r.reminder_datetime - 5
        /\ \A n \in added :
             /\ n.notification_type \in {"voice", "push"}
             /\ \E r \in SeededReminders :
                  n.reminder_id = r.reminder_id /\ n.user_id = r.user_id ]_vars

C21_Witness ==
  /\ seed_run.pc = "user_settings"
  /\ \E r \in reminders, n \in notifications :
       /\ r.priority = "urgent" /\ n.reminder_id = r.reminder_id
       /\ n.notification_type = "push"
       /\ n.scheduled_time = r.reminder_datetime - 5
  /\ \E r \in SeededReminders :
       /\ r.priority = "medium"
       /\ Cardinality({n \in notifications : n.reminder_id = r.reminder_id}) = 1
  /\ \E r \in reminders \ SeededReminders :
       \A n \in notifications : n.reminder_id # r.reminder_id
  /\ Cardinality(notifications) = 10

\* C22: every notification has a status among pending, sent, failed and
\* cancelled, and has a sent_time if and only if its status is sent.
C22_NotificationStatus ==
  \A n \in notifications :
    /\ n.status \in {"pending", "sent", "failed", "cancelled"}
    /\ (n.sent_time # << >>) <=> (n.status = "sent")

C22_Witness ==
  /\ \E n \in notifications :
       n.notification_type = "push" /\ n.status = "sent" /\ n.sent_time = <<now>>
  /\ \E n \in notifications :
       n.notification_type = "push" /\ n.status = "pending" /\ n.sent_time = << >>
  /\ \E n \in notifications :
       n.notification_type = "voice" /\ n.status = "pending"

\* The instant, in minutes of UTC, that a text with a zone designator
\* denotes: its wall-clock time minus its offset, "Z" being offset zero.
Instant(text) ==
  (CASE text[1] = "T00:00" -> 0 [] text[1] = "T01:40" -> 100
     [] text[1] = "T03:20" -> 200)
  - (IF text[2] = "+01:00" THEN 60 ELSE 0)

\* C23: a reminder_datetime given to create_reminder or update_reminder
\* with a zone designator is stored as the UTC time of the instant it
\* denotes.
C23_StoredAsUTC ==
  [][ ((Creates \/ Updates) /\ last'.status = 200) =>
        LET text == IF last'.op = "create_reminder"
                    THEN last'.args.reminder_data.reminder_datetime
                    ELSE last'.args.update_data.reminder_datetime
            id == IF last'.op = "create_reminder"
                  THEN last'.body.reminder_id ELSE last'.args.reminder_id
        IN (text # None /\ Len(Get(text)) = 2) =>
             \A r \in reminders' :
               r.reminder_id = id => r.reminder_datetime = Instant(Get(text)) ]_vars

\* C24: a session that get_db handed to a request is closed, whichever way
\* the handler was left, and closed once; a change that the session did not
\* commit never reaches the store, neither when the handler is left nor
\* when the session is closed.
C24_SessionClosed ==
  /\ [][ \A client \in Clients :
           /\ sessions'[client].closes <= 1
           /\ (sessions'[client].state = "closed") => (sessions'[client].closes = 1)
           /\ ( /\ sessions[client].state = "open"
                /\ sessions'[client].state = "exited"
                /\ sessions'[client].exit # "return" ) => store' = store
           /\ ( /\ sessions[client].state = "exited"
                /\ sessions'[client].state = "closed" ) => store' = store ]_vars
  /\ \A client \in Clients :
       /\ (sessions[client].state = "open") ~> (sessions[client].state = "closed")
       /\ \A exit \in {"return", "HTTPException", "exception"} :
            (sessions[client].state = "exited" /\ sessions[client].exit = exit)
              ~> (sessions[client].state = "closed" /\ sessions[client].closes = 1)

C24_Witness ==
  /\ sessions[1].state = "exited"
  /\ sessions[1].exit = "HTTPException"
  /\ sessions[1].pending # << >>
  /\ sessions[2].state = "closed"
  /\ sessions[2].exit = "exception"
  /\ sessions[2].closes = 1
  /\ last.op = "get_user_reminders"
  /\ last.body # {}
  /\ \A d \in last.body : d.title = "Take pill"

\* C25: update_user_setting leaves every users row, and with it every
\* accessibility_preferences document, as it was, also for a setting named
\* after a preference key; register_user, which writes the document, leaves
\* every user_settings row as it was.
C25_PreferencesAndSettingsApart ==
  [][ /\ Sets => users' = users
      /\ Registers => user_settings' = user_settings ]_vars

C25_Witness ==
  /\ last.op = "register_user"
  /\ last.status = 200
  /\ \E u \in users, s \in user_settings :
       /\ u.user_id # last.body.user_id
       /\ s.user_id = u.user_id
       /\ s.setting_name = "high_contrast"
       /\ u.accessibility_preferences.high_contrast = FALSE
       /\ last.body.accessibility_preferences.high_contrast = FALSE

\* C26: every row of a child table names a user that exists, and every
\* notification names a reminder that exists; so a log_tts_usage or an
\* update_user_setting for a user_id that does not exist leaves no row.
C26_ReferentialIntegrity ==
  /\ \A row \in tasks \cup reminders \cup notifications \cup tts_history \cup
                user_settings \cup device_sync \cup accessibility_logs :
       \E u \in users : u.user_id = row.user_id
  /\ \A n \in notifications :
       \E r \in reminders : r.reminder_id = n.reminder_id

C26_Witness ==
  /\ last.op \in {"log_tts_usage", "update_user_setting"}
  /\ last.status # 200
  /\ \A u \in users : u.user_id # last.args.user_id
  /\ users # {}
  /\ tts_history # {}
  /\ user_settings # {}
  /\ notifications # {}

\* C27: the seed endpoint answers with its success message only when the
\* run went through all stages, and answers 500 when a stage failed.
C27_SeedErrorsReported ==
  [][ /\ (seed_run.pc # "failed" /\ seed_run'.pc = "failed") =>
           (last'.op = "seed_database" /\ last'.status = 500)
      /\ (seed_run' # seed_run /\ last'.op = "seed_database"
            /\ last'.status = 200) =>
           seed_run'.pc = "done" ]_vars

\* The sample users are in the store.
SampleUsersStored ==
  \A email \in {<<"j", "@", "x">>, <<"m", "@", "x">>, <<"b", "o", "@", "x">>} :
    \E u \in users : u.email = email

\* C28: a run of seed_database that begins on a store holding the sample
\* users ends in its first stage, adds no row and changes no row.
C28_SeedTwice ==
  [][ (SampleUsersStored /\ SeedCreateUsers) =>
        /\ seed_run'.pc = "failed"
        /\ <<users, tasks, reminders, notifications, tts_history,
             user_settings, device_sync, accessibility_logs>>' =
           <<users, tasks, reminders, notifications, tts_history,
             user_settings, device_sync, accessibility_logs>> ]_vars

C28_Witness ==
  /\ seed_run.pc = "failed"
  /\ ~seed_run.empty
  /\ SampleUsersStored
  /\ Cardinality(users) = 3
  /\ last.op = "seed_database"

NoSpace(s) == \A i \in 1..Len(s) : s[i] # " "

Spaces(k) == [i \in 1..k |-> " "]

\* first is the first token of name and rest what follows it, the white
\* space around and between them left out.
TokenAndRest(name, first, rest) ==
  \E a \in 0..Len(name), k \in 0..Len(name), b \in 0..Len(name) :
    /\ name = Spaces(a) \o first \o Spaces(k) \o rest \o Spaces(b)
    /\ NoSpace(first)
    /\ rest = << >> => k = 0
    /\ rest # << >> => (k >= 1 /\ rest[1] # " " /\ rest[Len(rest)] # " ")

\* C29: register_user with a free email and a four-digit PIN succeeds for
\* every name, and stores the first token of the name as first_name and the
\* remainder as last_name.
C29_AnyNameRegisters ==
  [][ ( /\ Registers
        /\ FourDigits(last'.args.pin)
        /\ Registered(last'.args.email) = {} ) =>
        /\ last'.status = 200
        /\ \E u \in users' \ users :
             TokenAndRest(last'.args.name, u.first_name, u.last_name) ]_vars

\* create_reminder, given the text for an existing user, answers 400.
CreateRejects(text) ==
  \E u \in users :
    ENABLED ( /\ create_reminder(u.user_id,
                   [title |-> "Take pill", description |-> None,
                    reminder_datetime |-> text, frequency |-> "daily",
                    priority |-> "high"])
              /\ last'.status = 400 )

\* update_reminder, given the text for an existing reminder, answers 400.
UpdateRejects(text) ==
  \E r \in reminders :
    ENABLED ( /\ update_reminder(r.reminder_id,
                   [title |-> None, description |-> None,
                    reminder_datetime |-> text, frequency |-> None,
                    priority |-> None, is_active |-> None,
                    is_completed |-> None])
              /\ last'.status = 400 )

\* C30: whenever a user and a reminder exist, create_reminder and
\* update_reminder reject the same reminder_datetime texts with 400, the
\* empty text among them.
C30_SameTextsRejected ==
  (users # {} /\ reminders # {}) =>
    \A text \in {<<t>> : t \in {<< >>, <<"soon">>, <<"T01:40">>,
                                <<"T01:40", "Z">>, <<"T01:40", "+01:00">>}} :
      CreateRejects(text) <=> UpdateRejects(text)

====
